---- MODULE Spec2Model ----
(***************************************************************************)
(* A model of the GCS static-file middleware for Echo (package             *)
(* gcsmiddleware): one request travelling through FilesStore.ServerHeader, *)
(* the concurrent object fetch of getFiles/getFileAsync/getFile, and the   *)
(* pure helpers filePath, getContentType, shouldCompress and compressData. *)
(*                                                                         *)
(* Go strings are sequences of one-character strings, byte slices are      *)
(* sequences of small naturals, and a MIME type is a sequence of tokens    *)
(* (the type itself, and for the system table's entries a ";" and its      *)
(* parameter).                                                             *)
(***************************************************************************)
EXTENDS Integers, Sequences, FiniteSets, TLC

(***************************************************************************)
(* Bounds of the model.                                                    *)
(***************************************************************************)
\* how many times the backend object store may change while a request's
\* fetches are running
MaxBackendWrites == 1

(***************************************************************************)
(* The strings package, on character sequences.                            *)
(***************************************************************************)
\* s[from:] of Go (from is 0-based)
SliceFrom(s, from) == SubSeq(s, from + 1, Len(s))

\* s[:to] of Go
SliceTo(s, to) == SubSeq(s, 1, to)

\* strings.HasPrefix
HasPrefix(s, prefix) ==
    /\ Len(prefix) <= Len(s)
    /\ SubSeq(s, 1, Len(prefix)) = prefix

\* strings.Index: the 0-based index of the first occurrence, -1 when absent
Index(s, substr) ==
    LET hits == { i \in 0..(Len(s) - Len(substr)) :
                     SubSeq(s, i + 1, i + Len(substr)) = substr }
    IN  IF hits = {} THEN -1
        ELSE CHOOSE i \in hits : \A j \in hits : i <= j

\* strings.Contains
Contains(s, substr) == Index(s, substr) # -1

\* strings.Replace(s, old, "", 1) for a non-empty old: the first occurrence
\* of old is removed
ReplaceFirstWithEmpty(s, old) ==
    LET i == Index(s, old)
    IN  IF i = -1 THEN s
        ELSE SliceTo(s, i) \o SliceFrom(s, i + Len(old))

\* strings.TrimPrefix
TrimPrefix(s, prefix) ==
    IF HasPrefix(s, prefix) THEN SliceFrom(s, Len(prefix)) ELSE s

\* unicode.ToLower on the ASCII letters
UpperToLower ==
    ("A" :> "a") @@ ("B" :> "b") @@ ("C" :> "c") @@ ("D" :> "d") @@
    ("E" :> "e") @@ ("F" :> "f") @@ ("G" :> "g") @@ ("H" :> "h") @@
    ("I" :> "i") @@ ("J" :> "j") @@ ("K" :> "k") @@ ("L" :> "l") @@
    ("M" :> "m") @@ ("N" :> "n") @@ ("O" :> "o") @@ ("P" :> "p") @@
    ("Q" :> "q") @@ ("R" :> "r") @@ ("S" :> "s") @@ ("T" :> "t") @@
    ("U" :> "u") @@ ("V" :> "v") @@ ("W" :> "w") @@ ("X" :> "x") @@
    ("Y" :> "y") @@ ("Z" :> "z")

LowerChar(c) == IF c \in DOMAIN UpperToLower THEN UpperToLower[c] ELSE c

\* strings.ToLower
ToLower(s) == [i \in 1..Len(s) |-> LowerChar(s[i])]

\* strings.TrimSpace on token sequences: leading and trailing blanks go
RECURSIVE TrimSpace(_)
TrimSpace(s) ==
    IF s = <<>> THEN s
    ELSE IF s[1] = " " THEN TrimSpace(Tail(s))
    ELSE IF s[Len(s)] = " " THEN TrimSpace(SliceTo(s, Len(s) - 1))
    ELSE s

(***************************************************************************)
(* The path package.                                                       *)
(***************************************************************************)
\* the index (1-based) of the last "/" of s, 0 when there is none
LastSlash(s) ==
    LET at == { i \in 1..Len(s) : s[i] = "/" }
    IN  IF at = {} THEN 0 ELSE CHOOSE i \in at : \A j \in at : j <= i

\* strips the trailing slashes of s
RECURSIVE StripTrailingSlashes(_)
StripTrailingSlashes(s) ==
    IF s # <<>> /\ s[Len(s)] = "/"
    THEN StripTrailingSlashes(SliceTo(s, Len(s) - 1))
    ELSE s

\* path.Base: the last element of the path; "." for the empty path and "/"
\* for a path of slashes only
Base(p) ==
    IF p = <<>> THEN <<".">>
    ELSE LET q == StripTrailingSlashes(p)
             r == SliceFrom(q, LastSlash(q))
         IN  IF r = <<>> THEN <<"/">> ELSE r

\* path.Ext: the suffix from the last "." of the last element, "" if none
Ext(p) ==
    LET dots == { i \in 1..Len(p) : p[i] = "." /\ i > LastSlash(p) }
    IN  IF dots = {} THEN <<>>
        ELSE SliceFrom(p, (CHOOSE i \in dots : \A j \in dots : j <= i) - 1)

(***************************************************************************)
(* strconv.                                                                *)
(***************************************************************************)
Digit(d) ==
    CASE d = 0 -> "0" [] d = 1 -> "1" [] d = 2 -> "2" [] d = 3 -> "3"
      [] d = 4 -> "4" [] d = 5 -> "5" [] d = 6 -> "6" [] d = 7 -> "7"
      [] d = 8 -> "8" [] d = 9 -> "9"

\* strconv.FormatInt(n, 10) and strconv.Itoa(n) for n >= 0
RECURSIVE FormatInt(_)
FormatInt(n) ==
    IF n < 10 THEN <<Digit(n)>>
    ELSE Append(FormatInt(n \div 10), Digit(n % 10))

(***************************************************************************)
(* String constants of the program.                                        *)
(***************************************************************************)
Slash == <<"/">>
Dot == <<".">>
IndexHtml == <<"i", "n", "d", "e", "x", ".", "h", "t", "m", "l">>
SlashIndexHtml == Slash \o IndexHtml
EncGzip == <<"g", "z", "i", "p">>
EncBr == <<"b", "r">>
EncNone == <<>>

\* the MIME types, one token each
TextHtml == <<"text/html">>
TextCss == <<"text/css">>
TextPlain == <<"text/plain">>
TextXml == <<"text/xml">>
AppJavascript == <<"application/javascript">>
AppJson == <<"application/json">>
OctetStream == <<"application/octet-stream">>

(***************************************************************************)
(* filePath: the request path to the object key.                           *)
(***************************************************************************)
\* rootPath[0] of an empty RootPath is an index out of range: the handler
\* panics before anything is resolved
filePathPanics(cfg) == cfg.RootPath = <<>>

\* the root path with a leading and a trailing "/"
normalizedRoot(rootPath) ==
    LET lead == IF rootPath[1] # "/" THEN Slash \o rootPath ELSE rootPath
    IN  IF SliceFrom(lead, Len(lead) - 1) # Slash THEN lead \o Slash ELSE lead

\* SPA rules without the rule for the current-directory marker
spaPathNoDotRule(reqPath) ==
    IF ~Contains(Base(reqPath), Dot)
    THEN IF reqPath = <<>> \/ reqPath = Slash
         THEN IndexHtml
         ELSE TrimPrefix(reqPath, Slash) \o SlashIndexHtml
    ELSE reqPath

\* SPA rules that take every path for a route
spaPathAlwaysRoute(reqPath) ==
    IF reqPath = <<>> \/ reqPath = Slash
    THEN IndexHtml
    ELSE TrimPrefix(reqPath, Slash) \o SlashIndexHtml

\* the SPA rules applied to the path left after the root was removed
spaPath(reqPath) ==
    LET base == Base(reqPath)
        routed == IF ~Contains(base, Dot)
                  THEN IF reqPath = <<>> \/ reqPath = Slash
                       THEN IndexHtml
                       ELSE TrimPrefix(reqPath, Slash) \o SlashIndexHtml
                  ELSE reqPath
    IN  IF base = Dot THEN IndexHtml ELSE routed

filePath(cfg, urlPath) ==
    LET reqPath == ReplaceFirstWithEmpty(urlPath, normalizedRoot(cfg.RootPath))
    IN  IF cfg.IsSPA THEN spaPath(reqPath) ELSE reqPath

(***************************************************************************)
(* getContentType.                                                         *)
(***************************************************************************)
mimeTypeMap ==
    (<<".", "h", "t", "m", "l">> :> TextHtml) @@
    (<<".", "c", "s", "s">> :> TextCss) @@
    (<<".", "j", "s">> :> AppJavascript) @@
    (<<".", "j", "s", "o", "n">> :> AppJson) @@
    (<<".", "p", "n", "g">> :> <<"image/png">>) @@
    (<<".", "j", "p", "g">> :> <<"image/jpeg">>) @@
    (<<".", "j", "p", "e", "g">> :> <<"image/jpeg">>) @@
    (<<".", "g", "i", "f">> :> <<"image/gif">>) @@
    (<<".", "s", "v", "g">> :> <<"image/svg+xml">>) @@
    (<<".", "i", "c", "o">> :> <<"image/x-icon">>) @@
    (<<".", "t", "x", "t">> :> TextPlain) @@
    (<<".", "p", "d", "f">> :> <<"application/pdf">>) @@
    (<<".", "w", "o", "f", "f">> :> <<"font/woff">>) @@
    (<<".", "w", "o", "f", "f", "2">> :> <<"font/woff2">>) @@
    (<<".", "t", "t", "f">> :> <<"font/ttf">>) @@
    (<<".", "e", "o", "t">> :> <<"application/vnd.ms-fontobject">>)

\* mime.TypeByExtension: the entries of Go's built-in table whose extension
\* mimeTypeMap lacks; "" for every other extension
TypeByExtension(ext) ==
    CASE ext = <<".", "h", "t", "m">> -> <<"text/html", ";", " ", "charset=utf-8">>
      [] ext = <<".", "x", "m", "l">> -> <<"text/xml", ";", " ", "charset=utf-8">>
      [] ext = <<".", "m", "j", "s">> -> <<"text/javascript", ";", " ", "charset=utf-8">>
      [] ext = <<".", "w", "a", "s", "m">> -> <<"application/wasm">>
      [] ext = <<".", "w", "e", "b", "p">> -> <<"image/webp">>
      [] OTHER -> <<>>

\* the key without its query string
stripQuery(filePathArg) ==
    LET idx == Index(filePathArg, <<"?">>)
    IN  IF idx # -1 THEN SliceTo(filePathArg, idx) ELSE filePathArg

\* the system table's type with its parameters left in
stripParamsKept(mimeType) == TrimSpace(mimeType)

\* the system table's type without its parameters
stripParams(mimeType) ==
    LET idx == Index(mimeType, <<";">>)
    IN  TrimSpace(IF idx # -1 THEN SliceTo(mimeType, idx) ELSE mimeType)

\* a resolution that asks the backend's type before the table
getContentTypeFallbackFirst(filePathArg, fallback) ==
    LET ext == ToLower(Ext(stripQuery(filePathArg)))
    IN  IF fallback # <<>> THEN fallback
        ELSE IF ext \in DOMAIN mimeTypeMap THEN mimeTypeMap[ext]
        ELSE IF TypeByExtension(ext) # <<>> THEN stripParams(TypeByExtension(ext))
        ELSE OctetStream

getContentType(filePathArg, fallback) ==
    LET ext == ToLower(Ext(stripQuery(filePathArg)))
    IN  IF ext \in DOMAIN mimeTypeMap THEN mimeTypeMap[ext]
        ELSE IF fallback # <<>> THEN fallback
        ELSE IF TypeByExtension(ext) # <<>> THEN stripParams(TypeByExtension(ext))
        ELSE OctetStream

(***************************************************************************)
(* shouldCompress.                                                         *)
(***************************************************************************)
compressibleTypes ==
    { TextHtml, TextCss, TextPlain, TextXml, AppJavascript, AppJson,
      <<"application/xml">>, <<"application/x-javascript">>,
      <<"application/ld+json">> }

\* a decision that leaves out the bodies of exactly the minimum size
shouldCompressAboveMin(cfg, contentType, size) ==
    IF ~cfg.EnableCompression THEN FALSE
    ELSE IF size <= cfg.MinSizeForCompression THEN FALSE
    ELSE contentType \in compressibleTypes

shouldCompress(cfg, contentType, size) ==
    IF ~cfg.EnableCompression THEN FALSE
    ELSE IF size < cfg.MinSizeForCompression THEN FALSE
    ELSE contentType \in compressibleTypes

(***************************************************************************)
(* compress/gzip, as far as the program depends on it: a two-byte magic    *)
(* number, a block-type byte, the deflated payload and the length of the   *)
(* original as the trailer.  Level 0 stores the bytes, every other level   *)
(* run-length encodes them as (byte, count) pairs.                         *)
(***************************************************************************)
GzipMagic == <<31, 139>>

\* gzip.HuffmanOnly and gzip.BestCompression: the levels NewWriterLevel takes
HuffmanOnly == -2
BestCompression == 9
gzipLevelValid(level) == level >= HuffmanOnly /\ level <= BestCompression

RECURSIVE RunLength(_)
RunLength(data) ==
    IF data = <<>> THEN <<>>
    ELSE LET rest == RunLength(Tail(data))
         IN  IF rest # <<>> /\ rest[1] = Head(data)
             THEN <<rest[1], rest[2] + 1>> \o SliceFrom(rest, 2)
             ELSE <<Head(data), 1>> \o rest

RECURSIVE Expand(_)
Expand(pairs) ==
    IF Len(pairs) < 2 THEN <<>>
    ELSE [i \in 1..pairs[2] |-> pairs[1]] \o Expand(SliceFrom(pairs, 2))

gzipBytes(data, level) ==
    GzipMagic
      \o (IF level = 0 THEN <<0>> \o data ELSE <<1>> \o RunLength(data))
      \o <<Len(data)>>

\* gzip.NewReader + io.ReadAll: the original bytes of a gzip stream
gunzip(stream) ==
    LET payload == SubSeq(stream, 4, Len(stream) - 1)
    IN  IF stream[3] = 0 THEN payload ELSE Expand(payload)

(***************************************************************************)
(* compressData: the outcome is the data and the error it returns, or a    *)
(* panic.  NewWriterLevel's error is dropped, so an invalid level leaves   *)
(* a nil *gzip.Writer in writer and writer.Write dereferences it.          *)
(***************************************************************************)
DefaultLevel == 6

\* the configured level taken as it is, 0 meaning no compression
compressLevelAsConfigured(cfg) == cfg.CompressionLevel

compressLevel(cfg) ==
    IF cfg.CompressionLevel = 0 THEN DefaultLevel ELSE cfg.CompressionLevel

compressData(cfg, data, encoding) ==
    IF encoding = EncGzip
    THEN IF gzipLevelValid(compressLevel(cfg))
         THEN [data |-> gzipBytes(data, compressLevel(cfg)), err |-> "nil",
               panics |-> FALSE]
         ELSE [data |-> <<>>, err |-> "nil", panics |-> TRUE]
    ELSE IF encoding = EncBr
    THEN [data |-> <<>>, err |-> "brotli compression not implemented",
          panics |-> FALSE]
    ELSE [data |-> <<>>, err |-> "unsupported encoding", panics |-> FALSE]

(***************************************************************************)
(* The inputs of the model: configurations, requests and bucket contents.  *)
(***************************************************************************)
PathRoot == <<"/", "a", "/">>
PathRoute == <<"/", "a", "/", "d">>
PathAsset == <<"/", "a", "/", "m", ".", "j", "s">>
PathHealth == <<"/", "h">>
KeyAsset == <<"m", ".", "j", "s">>

RequestPaths == { PathRoot, PathRoute, PathAsset, PathHealth }

AcceptEncodings ==
    { EncNone, EncGzip, EncBr,
      <<"g", "z", "i", "p", ",", " ", "b", "r">> }

RootPaths == { <<>>, PathRoot, <<"a">> }

IgnorePaths == { <<>>, <<PathRoot, PathHealth>> }

CompressionSettings ==
    { [enable |-> FALSE, level |-> 0, min |-> 0] } \cup
    [enable : {TRUE}, level : {0, 9, 10}, min : {0, 6}]

Configs ==
    { [IgnorePath |-> ig, IsSPA |-> spa, RootPath |-> root,
       EnableCompression |-> cs.enable, CompressionLevel |-> cs.level,
       MinSizeForCompression |-> cs.min] :
         ig \in IgnorePaths, spa \in BOOLEAN, root \in RootPaths,
         cs \in CompressionSettings }

Requests == [Path : RequestPaths, AcceptEncoding : AcceptEncodings]

\* the objects a bucket of the model may hold: per key, the stored version
\* and the version a concurrent upload replaces it with
ObjectVersions ==
    (IndexHtml :> << [data |-> <<1, 1, 1, 1>>, contentType |-> TextHtml],
                     [data |-> <<1, 1, 1, 1, 3, 3, 3>>, contentType |-> TextHtml] >>) @@
    (KeyAsset :> << [data |-> <<2, 2, 2, 2, 2, 2>>, contentType |-> <<"text/javascript">>],
                    [data |-> <<2, 2, 5>>, contentType |-> <<"text/javascript">>] >>)

StoredKeys == DOMAIN ObjectVersions

\* a bucket maps the keys of its objects to the objects
Buckets ==
    { [k \in ks |-> ObjectVersions[k][1]] : ks \in SUBSET StoredKeys }

(***************************************************************************)
(* The state: the configuration the middleware was built with, the request *)
(* being handled, the bucket, and the handler's and the fetch goroutines'  *)
(* locals.                                                                 *)
(***************************************************************************)
VARIABLES
    config,       \* FilesStore.config
    request,      \* the request: URL path and Accept-Encoding header
    bucket,       \* the objects of the GCS bucket
    writes,       \* how many times the bucket changed during the fetches
    pc,           \* where the handler is
    nextCalls,    \* how many times next(c) was invoked
    paths,        \* the keys given to getFiles
    fetch,        \* per key, the goroutine running getFileAsync
    resultChan,   \* the buffered channel of getFiles
    results,      \* the results slice of getFiles
    received,     \* the loop index i of the collecting loop
    compression,  \* the encoding chosen and the outcome of compressData
    response,     \* what was written to the response
    call          \* a direct call of one of the helpers, as the unit tests make

vars == <<config, request, bucket, writes, pc, nextCalls, paths, fetch,
          resultChan, results, received, compression, response, call>>

StatusOK == 200
StatusNotFound == 404

\* the zero value of FileResult
ZeroResult == [Body |-> <<>>, ContentType |-> <<>>, Size |-> 0, Err |-> "nil"]

\* the result getFile returns on an error
ErrorResult(err) == [Body |-> <<>>, ContentType |-> <<>>, Size |-> 0, Err |-> err]

\* nothing written yet: no status, no header, no body
NoResponse ==
    [status |-> 0, contentType |-> <<>>, contentLength |-> <<>>,
     contentEncoding |-> <<>>, vary |-> <<>>, body |-> <<>>]

NoCompression == [called |-> FALSE, encoding |-> <<>>, err |-> "nil"]

NoFetch == [pc |-> "idle", size |-> 0, contentType |-> <<>>, data |-> <<>>,
            result |-> ZeroResult]

\* no helper is called directly
NoCall == [fn |-> "none", done |-> FALSE]

Init ==
    /\ call = NoCall
    /\ config \in Configs
    /\ request \in Requests
    /\ bucket \in Buckets
    /\ writes = 0
    /\ pc = "BypassCheck"
    /\ nextCalls = 0
    /\ paths = <<>>
    /\ fetch = <<>>
    /\ resultChan = <<>>
    /\ results = <<>>
    /\ received = 0
    /\ compression = NoCompression
    /\ response = NoResponse

(***************************************************************************)
(* ServerHeader, up to the call of getFiles.                               *)
(***************************************************************************)
\* a bypass test that takes an IgnorePath string as a prefix of the path
ignoredByPrefix(cfg, urlPath) ==
    \E n \in 1..Len(cfg.IgnorePath) : HasPrefix(urlPath, cfg.IgnorePath[n])

\* the loop over IgnorePath: true when the raw path equals one of them
ignored(cfg, urlPath) ==
    \E n \in 1..Len(cfg.IgnorePath) : urlPath = cfg.IgnorePath[n]

\* a handler that asks for the resolved key only
fetchPathsPrimaryOnly(cfg, urlPath) == <<filePath(cfg, urlPath)>>

\* the keys the handler asks getFiles for
fetchPaths(cfg, urlPath) ==
    IF cfg.IsSPA THEN <<filePath(cfg, urlPath), IndexHtml>>
    ELSE <<filePath(cfg, urlPath)>>

BypassCheck ==
    /\ pc = "BypassCheck"
    /\ IF ignored(config, request.Path)
       THEN /\ nextCalls' = nextCalls + 1
            /\ pc' = "next"
       ELSE /\ nextCalls' = nextCalls
            /\ pc' = "Resolve"
    /\ UNCHANGED <<call, config, request, bucket, writes, paths, fetch, resultChan,
                   results, received, compression, response>>

Resolve ==
    /\ pc = "Resolve"
    /\ IF filePathPanics(config)
       THEN /\ pc' = "panic"
            /\ paths' = paths
       ELSE /\ pc' = "Fetch"
            /\ paths' = fetchPaths(config, request.Path)
    /\ UNCHANGED <<call, config, request, bucket, writes, nextCalls, fetch,
                   resultChan, results, received, compression, response>>

(***************************************************************************)
(* getFiles: the channel and the slice are made and one goroutine per key  *)
(* is started; the results are then received one by one.                   *)
(***************************************************************************)
StartFetch ==
    /\ pc = "Fetch"
    /\ resultChan' = <<>>
    /\ results' = [n \in 1..Len(paths) |-> ZeroResult]
    /\ fetch' = [n \in 1..Len(paths) |-> [NoFetch EXCEPT !.pc = "Attrs"]]
    /\ received' = 0
    /\ pc' = "Collect"
    /\ UNCHANGED <<call, config, request, bucket, writes, nextCalls, paths,
                   compression, response>>

\* where the result received as number i (0-based) is stored
resultSlot(i) == i + 1

\* a collection that returns with the first result it receives
ReceiveFirstOnly ==
    /\ pc = "Collect"
    /\ received < Len(paths)
    /\ resultChan # <<>>
    /\ results' = [results EXCEPT ![resultSlot(received)] = Head(resultChan)]
    /\ resultChan' = Tail(resultChan)
    /\ received' = received + 1
    /\ pc' = "Select"
    /\ UNCHANGED <<call, config, request, bucket, writes, nextCalls, paths, fetch,
                   compression, response>>

Receive ==
    /\ pc = "Collect"
    /\ received < Len(paths)
    /\ resultChan # <<>>
    /\ results' = [results EXCEPT ![resultSlot(received)] = Head(resultChan)]
    /\ resultChan' = Tail(resultChan)
    /\ received' = received + 1
    /\ pc' = IF received + 1 = Len(paths) THEN "Select" ELSE "Collect"
    /\ UNCHANGED <<call, config, request, bucket, writes, nextCalls, paths, fetch,
                   compression, response>>

(***************************************************************************)
(* getFileAsync and getFile, one goroutine per key: the metadata read, the *)
(* opening of the reader, the read of the body, and the send.              *)
(***************************************************************************)
Unfetched == UNCHANGED <<call, config, request, bucket, writes, pc, nextCalls,
                         paths, resultChan, results, received, compression,
                         response>>

\* obj.Attrs: fails when the object does not exist
GetAttrs(i) ==
    /\ fetch[i].pc = "Attrs"
    /\ IF paths[i] \in DOMAIN bucket
       THEN fetch' = [fetch EXCEPT
                ![i].pc = "NewReader",
                ![i].size = Len(bucket[paths[i]].data),
                ![i].contentType = bucket[paths[i]].contentType]
       ELSE fetch' = [fetch EXCEPT
                ![i].pc = "Send",
                ![i].result = ErrorResult("ErrObjectNotExist")]
    /\ Unfetched

\* obj.NewReader: opens the object as it is now; fails when it is gone
NewReader(i) ==
    /\ fetch[i].pc = "NewReader"
    /\ IF paths[i] \in DOMAIN bucket
       THEN fetch' = [fetch EXCEPT
                ![i].pc = "ReadAll",
                ![i].data = bucket[paths[i]].data]
       ELSE fetch' = [fetch EXCEPT
                ![i].pc = "Send",
                ![i].result = ErrorResult("ErrObjectNotExist")]
    /\ Unfetched

\* what getFile returns when every call succeeded
fileResult(path, data, attrsContentType, attrsSize) ==
    [Body |-> data,
     ContentType |-> getContentType(path, attrsContentType),
     Size |-> attrsSize,
     Err |-> "nil"]

\* io.ReadAll: the whole body, or a read error
ReadAll(i) ==
    /\ fetch[i].pc = "ReadAll"
    /\ \E ok \in BOOLEAN :
         fetch' = [fetch EXCEPT
            ![i].pc = "Send",
            ![i].result =
                IF ok
                THEN fileResult(paths[i], fetch[i].data, fetch[i].contentType,
                                fetch[i].size)
                ELSE ErrorResult("ErrUnexpectedEOF")]
    /\ Unfetched

\* a send on a channel that holds one result only
SendCapacityOne(i) ==
    /\ fetch[i].pc = "Send"
    /\ Len(resultChan) < 1
    /\ resultChan' = Append(resultChan, fetch[i].result)
    /\ fetch' = [fetch EXCEPT ![i].pc = "done"]
    /\ UNCHANGED <<call, config, request, bucket, writes, pc, nextCalls, paths,
                   results, received, compression, response>>

\* resultChan <- FileResult{...}: the channel holds len(paths) results, so
\* the send never waits
Send(i) ==
    /\ fetch[i].pc = "Send"
    /\ Len(resultChan) < Len(paths)
    /\ resultChan' = Append(resultChan, fetch[i].result)
    /\ fetch' = [fetch EXCEPT ![i].pc = "done"]
    /\ UNCHANGED <<call, config, request, bucket, writes, pc, nextCalls, paths,
                   results, received, compression, response>>

(***************************************************************************)
(* The backend, outside the program: while a fetch has not opened its      *)
(* reader yet, an object may be deleted, uploaded or replaced.             *)
(***************************************************************************)
BackendWrite ==
    /\ writes < MaxBackendWrites
    /\ \E i \in DOMAIN fetch : fetch[i].pc \in {"Attrs", "NewReader"}
    /\ \E k \in StoredKeys :
         \/ /\ k \in DOMAIN bucket
            /\ bucket' = [j \in DOMAIN bucket \ {k} |-> bucket[j]]
         \/ \E v \in 1..Len(ObjectVersions[k]) :
              /\ (IF k \in DOMAIN bucket
                  THEN bucket[k] # ObjectVersions[k][v] ELSE TRUE)
              /\ bucket' = [j \in DOMAIN bucket \cup {k} |->
                              IF j = k THEN ObjectVersions[k][v] ELSE bucket[j]]
    /\ writes' = writes + 1
    /\ UNCHANGED <<call, config, request, pc, nextCalls, paths, fetch, resultChan,
                   results, received, compression, response>>

(***************************************************************************)
(* ServerHeader, after getFiles returned: the body is selected, compressed *)
(* when possible, and written.                                             *)
(***************************************************************************)
\* c.Blob(StatusOK, ...) for the index.html result, after Content-Length
indexResponse(indexResult) ==
    [status |-> StatusOK,
     contentType |-> indexResult.ContentType,
     contentLength |-> FormatInt(indexResult.Size),
     contentEncoding |-> <<>>,
     vary |-> <<>>,
     body |-> indexResult.Body]

\* a handler that reports the backend error as a server error
internalErrorResponse == [NoResponse EXCEPT !.status = 500]

\* c.NoContent(StatusNotFound): a status and nothing else
notFoundResponse == [NoResponse EXCEPT !.status = StatusNotFound]

\* c.Blob(StatusOK, ...) for the compressed body, after the three headers
compressedResponse(result, encoding, compressed) ==
    [status |-> StatusOK,
     contentType |-> result.ContentType,
     contentLength |-> FormatInt(Len(compressed)),
     contentEncoding |-> encoding,
     vary |-> <<"Accept-Encoding">>,
     body |-> compressed]

\* c.Blob(StatusOK, ...) for the body as fetched, after Content-Length
plainResponse(result) ==
    [status |-> StatusOK,
     contentType |-> result.ContentType,
     contentLength |-> FormatInt(result.Size),
     contentEncoding |-> <<>>,
     vary |-> <<>>,
     body |-> result.Body]

\* an encoding choice that prefers gzip, the encoding that works
chooseEncodingGzipFirst(acceptEncoding) ==
    IF Contains(acceptEncoding, EncGzip) THEN EncGzip
    ELSE IF Contains(acceptEncoding, EncBr) THEN EncBr
    ELSE <<>>

\* the encoding picked from the Accept-Encoding header
chooseEncoding(acceptEncoding) ==
    IF Contains(acceptEncoding, EncBr) THEN EncBr
    ELSE IF Contains(acceptEncoding, EncGzip) THEN EncGzip
    ELSE <<>>

\* a handler without the index.html fallback
errorResponseNoFallback(cfg, res) == notFoundResponse

\* what the handler writes when results[0] carries an error
errorResponse(cfg, res) ==
    IF cfg.IsSPA /\ res[2].Err = "nil"
    THEN indexResponse(res[2])
    ELSE notFoundResponse

SelectBody ==
    /\ pc = "Select"
    /\ IF results[1].Err # "nil"
       THEN /\ response' = errorResponse(config, results)
            /\ pc' = "done"
       ELSE /\ response' = response
            /\ pc' = "MaybeCompress"
    /\ UNCHANGED <<call, config, request, bucket, writes, nextCalls, paths, fetch,
                   resultChan, results, received, compression>>

\* whether the handler calls compressData for results[0]
triesCompression(cfg, req, result) ==
    /\ shouldCompress(cfg, result.ContentType, result.Size)
    /\ chooseEncoding(req.AcceptEncoding) # <<>>

MaybeCompress ==
    /\ pc = "MaybeCompress"
    /\ IF triesCompression(config, request, results[1])
       THEN LET encoding == chooseEncoding(request.AcceptEncoding)
                out == compressData(config, results[1].Body, encoding)
            IN  /\ compression' = [called |-> TRUE, encoding |-> encoding,
                                   err |-> out.err]
                /\ IF out.panics
                   THEN /\ pc' = "panic"
                        /\ response' = response
                   ELSE /\ pc' = "done"
                        /\ response' =
                             IF out.err = "nil"
                             THEN compressedResponse(results[1], encoding, out.data)
                             ELSE plainResponse(results[1])
       ELSE /\ compression' = compression
            /\ pc' = "done"
            /\ response' = plainResponse(results[1])
    /\ UNCHANGED <<call, config, request, bucket, writes, nextCalls, paths, fetch,
                   resultChan, results, received>>

Next ==
    \/ BypassCheck
    \/ Resolve
    \/ StartFetch
    \/ \E i \in DOMAIN fetch : GetAttrs(i)
    \/ \E i \in DOMAIN fetch : NewReader(i)
    \/ \E i \in DOMAIN fetch : ReadAll(i)
    \/ \E i \in DOMAIN fetch : Send(i)
    \/ Receive
    \/ BackendWrite
    \/ SelectBody
    \/ MaybeCompress

Spec == Init /\ [][Next]_vars

(***************************************************************************)
(* The helpers called directly, as gcs_test.go calls them: filePath and    *)
(* shouldCompress and compressData on a FilesStore built from a            *)
(* configuration, getContentType on a key and a fallback.                  *)
(***************************************************************************)
\* a call that has not run yet
PendingCall(fn) ==
    [fn |-> fn, rootName |-> <<>>, path |-> <<>>, fallback |-> <<>>,
     contentType |-> <<>>, size |-> 0, data |-> <<>>, encoding |-> <<>>,
     done |-> FALSE, panics |-> FALSE, out |-> <<>>]

\* a configuration with nothing but the root path and the SPA flag set
PathConfig(root, spa) ==
    [IgnorePath |-> <<>>, IsSPA |-> spa, RootPath |-> root,
     EnableCompression |-> FALSE, CompressionLevel |-> 0,
     MinSizeForCompression |-> 0]

\* a configuration with nothing but the compression settings set
CompressionConfig(enable, level, min) ==
    [IgnorePath |-> <<>>, IsSPA |-> FALSE, RootPath |-> Slash,
     EnableCompression |-> enable, CompressionLevel |-> level,
     MinSizeForCompression |-> min]

\* the four ways of writing the root x: x, /x, x/ and /x/
RootForms(name) ==
    { name, Slash \o name, name \o Slash, Slash \o name \o Slash }

UnitRootNames == { <<"a">>, <<"s", "/", "t">> }

UnitUrlPaths ==
    { <<"/">>,
      <<"/", "a">>,
      <<"/", "a", "/">>,
      <<"/", "a", "/", "d">>,
      <<"/", "a", "/", "d", "/">>,
      <<"/", "a", "/", "/", "d">>,
      <<"/", "a", "/", "d", "/", "e">>,
      <<"/", "a", "/", ".">>,
      <<"/", "a", "/", "m", ".", "j", "s">>,
      <<"/", "a", "/", "m", ".", "j", "s", "?", "v", "=", "1", ".", "2">>,
      <<"/", "a", "/">> \o IndexHtml,
      <<"/", "a", "/", "d", "/">> \o IndexHtml,
      <<"/", "b", "/", "a", "/", "c">>,
      <<"/", "b", "/", "a", "/", "c", ".", "j", "s">>,
      <<"/", "s", "/", "t", "/">>,
      <<"/", "s", "/", "t", "/", "c", ".", "c", "s", "s">>,
      <<"/", "s", "/", "t", "/", "d">>,
      <<"/", "h">> }

\* filePath on every root, written every way, and on the root "/"
FilePathCalls ==
    UNION { { [call |-> [PendingCall("filePath") EXCEPT !.rootName = name],
               config |-> PathConfig(root, spa),
               request |-> [Path |-> url, AcceptEncoding |-> <<>>]] :
                 root \in RootForms(name), spa \in BOOLEAN,
                 url \in UnitUrlPaths } : name \in UnitRootNames }
    \cup
    { [call |-> PendingCall("filePath"),
       config |-> PathConfig(Slash, spa),
       request |-> [Path |-> url, AcceptEncoding |-> <<>>]] :
         spa \in BOOLEAN, url \in UnitUrlPaths }

UnitKeys ==
    { IndexHtml,
      <<"s", ".", "c", "s", "s">>,
      <<"S", ".", "C", "S", "S">>,
      <<"s", ".", "c", "s", "s", "?", "v", "=", "1", ".", "2">>,
      <<"m", ".", "J", "s">>,
      <<"p", ".", "J", "P", "G">>,
      <<"w", ".", "w", "o", "f", "f", "2">>,
      <<"/", "a", "/", "t", ".", "m", "i", "n", ".", "j", "s">>,
      <<"R", "E", "A", "D", "M", "E">>,
      <<"a", ".", "d", "/", "c">>,
      <<"d", ".", "x", "y", "z">>,
      <<"d", ".", "x", "y", "z", "?", "f", "=", "a", ".", "j", "s">>,
      <<"d", ".", "X", "M", "L">>,
      <<"d", ".", "h", "t", "m">>,
      <<"d", ".", "w", "a", "s", "m">>,
      <<"d", ".">>,
      <<>> }

UnitFallbacks == { <<>>, <<"application/custom">>, TextPlain }

ContentTypeCalls ==
    { [call |-> [PendingCall("getContentType") EXCEPT
                    !.path = key, !.fallback = fallback],
       config |-> PathConfig(Slash, FALSE),
       request |-> [Path |-> Slash, AcceptEncoding |-> <<>>]] :
         key \in UnitKeys, fallback \in UnitFallbacks }

UnitContentTypes ==
    compressibleTypes \cup
    { <<>>, OctetStream, <<"image/jpeg">>, <<"image/png">>, <<"image/gif">>,
      <<"image/svg+xml">>, <<"image/x-icon">>, <<"font/woff">>,
      <<"font/woff2">>, <<"font/ttf">>, <<"application/pdf">>,
      <<"text/javascript">>, <<"TEXT/HTML">> }

UnitSizes == { 0, 5, 6, 7 }

ShouldCompressCalls ==
    { [call |-> [PendingCall("shouldCompress") EXCEPT
                    !.contentType = ct, !.size = size],
       config |-> CompressionConfig(enable, 0, min),
       request |-> [Path |-> Slash, AcceptEncoding |-> <<>>]] :
         ct \in UnitContentTypes, size \in UnitSizes,
         enable \in BOOLEAN, min \in {0, 6} }

UnitEncodings ==
    { EncGzip, EncBr, <<>>, <<"G", "Z", "I", "P">>,
      <<"g", "z", "i", "p", ",", " ", "b", "r">>,
      <<"d", "e", "f", "l", "a", "t", "e">>,
      <<"i", "n", "v", "a", "l", "i", "d">> }

UnitLevels == { -1, 0, 1, 6, 9, 10 }

UnitBodies == { <<>>, <<1, 1, 1, 1>>, <<2, 2, 5>>, <<7>> }

CompressDataCalls ==
    { [call |-> [PendingCall("compressData") EXCEPT
                    !.data = data, !.encoding = encoding],
       config |-> CompressionConfig(TRUE, level, 0),
       request |-> [Path |-> Slash, AcceptEncoding |-> <<>>]] :
         data \in UnitBodies, encoding \in UnitEncodings,
         level \in UnitLevels }

UnitCalls ==
    FilePathCalls \cup ContentTypeCalls \cup ShouldCompressCalls
        \cup CompressDataCalls

UnitInit ==
    /\ \E c \in UnitCalls :
         /\ call = c.call
         /\ config = c.config
         /\ request = c.request
    /\ bucket = <<>>
    /\ writes = 0
    /\ pc = "unit"
    /\ nextCalls = 0
    /\ paths = <<>>
    /\ fetch = <<>>
    /\ resultChan = <<>>
    /\ results = <<>>
    /\ received = 0
    /\ compression = NoCompression
    /\ response = NoResponse

Uncalled == UNCHANGED <<config, request, bucket, writes, pc, nextCalls,
                        paths, fetch, resultChan, results, received,
                        compression, response>>

\* fs.filePath(ctx)
CallFilePath ==
    /\ call.fn = "filePath"
    /\ ~call.done
    /\ IF filePathPanics(config)
       THEN call' = [call EXCEPT !.done = TRUE, !.panics = TRUE]
       ELSE call' = [call EXCEPT !.done = TRUE,
                                 !.out = filePath(config, request.Path)]
    /\ Uncalled

\* getContentType(path, fallback)
CallGetContentType ==
    /\ call.fn = "getContentType"
    /\ ~call.done
    /\ call' = [call EXCEPT !.done = TRUE,
                            !.out = getContentType(call.path, call.fallback)]
    /\ Uncalled

\* fs.shouldCompress(contentType, size)
CallShouldCompress ==
    /\ call.fn = "shouldCompress"
    /\ ~call.done
    /\ call' = [call EXCEPT
                  !.done = TRUE,
                  !.out = shouldCompress(config, call.contentType, call.size)]
    /\ Uncalled

\* fs.compressData(data, encoding)
CallCompressData ==
    /\ call.fn = "compressData"
    /\ ~call.done
    /\ LET out == compressData(config, call.data, call.encoding)
       IN  call' = [call EXCEPT !.done = TRUE, !.panics = out.panics,
                                !.out = [data |-> out.data, err |-> out.err]]
    /\ Uncalled

UnitNext ==
    \/ CallFilePath
    \/ CallGetContentType
    \/ CallShouldCompress
    \/ CallCompressData

UnitSpec == UnitInit /\ [][UnitNext]_vars

(***************************************************************************)
(* Properties.                                                             *)
(***************************************************************************)
\* getFiles has returned: every result was received
\* the most goroutines one request starts: the primary key and index.html
MaxFetches == 2

\* every backend call returns, every goroutine that can run is run, and the
\* handler's own goroutine goes on when it can
Fairness ==
    /\ WF_vars(StartFetch)
    /\ WF_vars(Receive)
    /\ \A i \in 1..MaxFetches :
         /\ WF_vars(i \in DOMAIN fetch /\ GetAttrs(i))
         /\ WF_vars(i \in DOMAIN fetch /\ NewReader(i))
         /\ WF_vars(i \in DOMAIN fetch /\ ReadAll(i))
         /\ WF_vars(i \in DOMAIN fetch /\ Send(i))

\* getFiles reads neither the compression settings nor Accept-Encoding: the
\* fan-out is followed for one compression level and minimum, with
\* compression on and off, and for requests that accept gzip or nothing
FanOutInit ==
    /\ Init
    /\ config.CompressionLevel = 0
    /\ config.MinSizeForCompression = 0
    /\ request.AcceptEncoding \in {EncNone, EncGzip}

FairSpec == FanOutInit /\ [][Next]_vars /\ Fairness

getFilesReturned == fetch # <<>> /\ received = Len(paths)

\* the FileResult the goroutine started for paths[i] produced
fetched(i) == fetch[i].result

\* the bytes a client sees after undoing the Content-Encoding of a response
decodedBody(resp) ==
    IF resp.contentEncoding = EncGzip THEN gunzip(resp.body) ELSE resp.body

\* the slot of results the handler serves: 1 for fileResult, 2 for
\* indexResult, 0 when it answers 404
servedSlot ==
    IF results[1].Err = "nil" THEN 1
    ELSE IF config.IsSPA /\ results[2].Err = "nil" THEN 2
    ELSE 0

\* C1: once getFiles has returned, the i-th result is the result of the
\* fetch of the i-th key, whatever the order in which the fetches finished.
C1_InputOrder ==
    getFilesReturned => \A i \in DOMAIN paths : results[i] = fetched(i)

\* C2: when the fetch of the primary key succeeded, the response is a 200
\* that carries the primary object's body and content type, also in SPA mode
\* when the index.html fetch finished first.
C2_PrimaryWins ==
    (pc = "done" /\ fetched(1).Err = "nil") =>
        /\ response.status = StatusOK
        /\ decodedBody(response) = fetched(1).Body
        /\ response.contentType = fetched(1).ContentType

\* C3: in SPA mode, when the primary fetch failed and the index.html fetch
\* succeeded, the response written is a 200 whose body is the index.html
\* object and whose content type is text/html, in either completion order.
C3_SpaFallback ==
    (pc = "done" /\ config.IsSPA /\ fetched(1).Err # "nil"
                 /\ fetched(2).Err = "nil") =>
        /\ response.status = StatusOK
        /\ decodedBody(response) = fetched(2).Body
        /\ response.contentType = TextHtml

\* the index.html fetch finished first, the primary fetch failed, and the
\* index.html object was served
C3_Witness ==
    /\ pc = "done"
    /\ config.IsSPA
    /\ fetched(1).Err # "nil"
    /\ fetched(2).Err = "nil"
    /\ results[1] = fetched(2)
    /\ response.status = StatusOK

\* every fetch of the request failed (the fallback counts in SPA mode only)
totalFailure ==
    /\ fetched(1).Err # "nil"
    /\ IF config.IsSPA THEN fetched(2).Err # "nil" ELSE TRUE

\* C4: the response written to a request that was not bypassed is a 404
\* with an empty body exactly when the primary fetch failed and SPA mode is
\* off or the index.html fetch failed too; otherwise it is a 200.
C4_NotFoundExactly ==
    pc = "done" =>
        IF totalFailure
        THEN response.status = StatusNotFound /\ response.body = <<>>
        ELSE response.status = StatusOK

\* SPA mode, both fetches failed, 404 written
C4_Witness ==
    /\ pc = "done"
    /\ config.IsSPA
    /\ fetched(1).Err = "ErrUnexpectedEOF"
    /\ fetched(2).Err = "ErrObjectNotExist"
    /\ response.status = StatusNotFound

\* C5: handling never panics, and it ends with the next handler invoked and
\* nothing written, or with a 200 or a 404 written.
C5_NothingFatal ==
    /\ pc # "panic"
    /\ pc = "done" => response.status \in {StatusOK, StatusNotFound}
    /\ pc = "next" => nextCalls = 1 /\ response = NoResponse

\* the raw request path is one of the configured IgnorePath strings
exactlyIgnored ==
    request.Path \in { config.IgnorePath[n] : n \in DOMAIN config.IgnorePath }

\* C6: a request whose raw path equals an IgnorePath string goes to the next
\* handler and nothing else happens: no key is resolved, no fetch is started,
\* nothing is written; for every other request the next handler is never
\* invoked.
C6_Bypass ==
    /\ (exactlyIgnored /\ pc # "BypassCheck") =>
          /\ pc = "next"
          /\ nextCalls = 1
          /\ paths = <<>>
          /\ fetch = <<>>
          /\ response = NoResponse
    /\ ~exactlyIgnored => nextCalls = 0 /\ pc # "next"

\* a request for the root path, which the configuration ignores, was handed
\* to the next handler
C6_Witness ==
    /\ pc = "next"
    /\ nextCalls = 1
    /\ request.Path = PathRoot
    /\ config.RootPath = PathRoot

\* the response that delivers results[slot] as fetched: a 200 with the
\* body uncompressed, its size as Content-Length and no Content-Encoding
servedUncompressed(slot) ==
    /\ response.status = StatusOK
    /\ response.body = results[slot].Body
    /\ response.contentLength = FormatInt(results[slot].Size)
    /\ response.contentEncoding = <<>>
    /\ response.vary = <<>>

\* C7: when compressData returned an error, and in particular whenever the
\* body served is eligible for compression and Accept-Encoding mentions br,
\* the response is a 200 with the uncompressed body, the uncompressed size as
\* Content-Length and no Content-Encoding.
C7_CompressionFailureAbsorbed ==
    /\ (pc = "done" /\ compression.called /\ compression.err # "nil") =>
          servedUncompressed(1)
    /\ (pc = "done" /\ servedSlot # 0
           /\ shouldCompress(config, results[servedSlot].ContentType,
                             results[servedSlot].Size)
           /\ Contains(request.AcceptEncoding, EncBr)) =>
          servedUncompressed(servedSlot)

\* the client accepts gzip and br, br was tried and failed, the body went
\* out uncompressed
C7_Witness ==
    /\ pc = "done"
    /\ Contains(request.AcceptEncoding, EncGzip)
    /\ compression.called
    /\ compression.encoding = EncBr
    /\ compression.err # "nil"
    /\ response.status = StatusOK
    /\ Len(response.body) > 0

\* C8: when the index.html fallback is served, is eligible for compression
\* and the client accepts gzip, the response is gzip-compressed.
C8_FallbackCompressed ==
    (pc = "done" /\ config.IsSPA /\ fetched(1).Err # "nil"
        /\ fetched(2).Err = "nil"
        /\ shouldCompress(config, fetched(2).ContentType, fetched(2).Size)
        /\ request.AcceptEncoding = EncGzip) =>
        /\ response.contentEncoding = EncGzip
        /\ response.vary = <<"Accept-Encoding">>
        /\ gunzip(response.body) = fetched(2).Body

\* C9: when the primary body is served, is eligible for compression and the
\* request's Accept-Encoding is gzip, the response carries Content-Encoding:
\* gzip and Vary: Accept-Encoding and its body decompresses to the object.
C9_GzipEndToEnd ==
    (pc = "done" /\ servedSlot # 0
        /\ results[servedSlot] = fetched(1)
        /\ config.EnableCompression
        /\ fetched(1).ContentType \in compressibleTypes
        /\ fetched(1).Size >= config.MinSizeForCompression
        /\ request.AcceptEncoding = EncGzip) =>
        /\ response.contentEncoding = EncGzip
        /\ response.vary = <<"Accept-Encoding">>
        /\ gunzip(response.body) = fetched(1).Body

\* C10: every response the middleware writes carries a Content-Length
\* header, and its value is the number of body bytes written.
C10_ContentLength ==
    pc = "done" =>
        /\ response.contentLength # <<>>
        /\ response.contentLength = FormatInt(Len(response.body))

(***************************************************************************)
(* Properties of filePath, under UnitSpec.                                 *)
(***************************************************************************)
\* a direct call of fn has returned
returned(fn) == call.fn = fn /\ call.done /\ ~call.panics

\* the root x of the call with a leading and a trailing "/", whichever way
\* the configuration writes it
enclosedRoot ==
    IF call.rootName = <<>> THEN Slash ELSE Slash \o call.rootName \o Slash

\* p without the prefix r, when it has it
withoutPrefix(p, r) == IF HasPrefix(p, r) THEN SliceFrom(p, Len(r)) ELSE p

\* the request path after the root was stripped the way filePath strips it
candidateKey == ReplaceFirstWithEmpty(request.Path, enclosedRoot)

\* s without its leading and trailing "/"s
RECURSIVE withoutLeadingSlashes(_)
withoutLeadingSlashes(s) ==
    IF s # <<>> /\ s[1] = "/" THEN withoutLeadingSlashes(Tail(s)) ELSE s

segmentsOnly(s) == StripTrailingSlashes(withoutLeadingSlashes(s))

\* the last element of a path: what follows its last "/", trailing "/"s
\* aside
finalSegment(s) ==
    LET q == StripTrailingSlashes(s) IN SliceFrom(q, LastSlash(q))

\* C11: with SPA off, filePath returns the request path with the enclosed
\* root removed once as a prefix and nothing else changed, whichever of the
\* four ways the root is written.
C11_NonSpaPrefixStripped ==
    (returned("filePath") /\ ~config.IsSPA) =>
        call.out = withoutPrefix(request.Path, enclosedRoot)

\* C12: in SPA mode a candidate key whose final segment has no "." resolves
\* to its segments followed by /index.html, with no leading "/" and no empty
\* segment; the empty and the root-only candidate resolve to index.html.
C12_SpaRoute ==
    (returned("filePath") /\ config.IsSPA
        /\ ~Contains(finalSegment(candidateKey), Dot)) =>
        /\ call.out = IF segmentsOnly(candidateKey) = <<>> THEN IndexHtml
                      ELSE segmentsOnly(candidateKey) \o SlashIndexHtml
        /\ ~HasPrefix(call.out, Slash)
        /\ ~Contains(call.out, <<"/", "/">>)

C14_SpaFileLike ==
    (returned("filePath") /\ config.IsSPA
        /\ Contains(finalSegment(request.Path), Dot)
        /\ finalSegment(request.Path) # Dot) =>
        call.out = candidateKey

\* a key that ends in index.html already is left alone
C14_Witness ==
    /\ returned("filePath")
    /\ config.IsSPA
    /\ request.Path = <<"/", "a", "/", "d", "/">> \o IndexHtml
    /\ call.out = <<"d", "/">> \o IndexHtml

(***************************************************************************)
(* Properties of getContentType, shouldCompress and compressData, under    *)
(* UnitSpec.                                                               *)
(***************************************************************************)
\* the extension of the key of the call: what precedes the first "?", its
\* extension, in lower case
keyExtension == ToLower(Ext(stripQuery(call.path)))

\* C15: a key whose extension is in the static table gets the table's type,
\* whatever the case of the extension, whatever follows a "?" and whatever
\* type the backend reported.
C15_TableMatch ==
    (returned("getContentType") /\ keyExtension \in DOMAIN mimeTypeMap) =>
        call.out = mimeTypeMap[keyExtension]

\* an upper-case extension, and a backend type that differs from the table's
C15_Witness ==
    /\ returned("getContentType")
    /\ call.path = <<"S", ".", "C", "S", "S">>
    /\ call.fallback = <<"application/custom">>
    /\ call.out = TextCss

\* a content type has no parameter
bareType(t) == Len(t) = 1 /\ \A i \in DOMAIN t : t[i] # ";"

\* C16: a key whose extension is not in the static table gets the backend's
\* type when there is one; without one it gets the system table's type less
\* its parameters, or application/octet-stream; the type is never empty.
C16_FallbackChain ==
    (returned("getContentType") /\ keyExtension \notin DOMAIN mimeTypeMap) =>
        /\ call.fallback # <<>> => call.out = call.fallback
        /\ (call.fallback = <<>> /\ TypeByExtension(keyExtension) # <<>>) =>
               /\ call.out = <<TypeByExtension(keyExtension)[1]>>
               /\ bareType(call.out)
        /\ (call.fallback = <<>> /\ TypeByExtension(keyExtension) = <<>>) =>
               call.out = OctetStream
        /\ call.out # <<>>

\* the system table knows the extension and gives a type with a charset
C16_Witness ==
    /\ returned("getContentType")
    /\ call.path = <<"d", ".", "X", "M", "L">>
    /\ call.fallback = <<>>
    /\ call.out = TextXml

\* the types the claim lists as never compressed
neverCompressed ==
    { <<>>, OctetStream, <<"image/jpeg">>, <<"image/png">>, <<"image/gif">>,
      <<"image/svg+xml">>, <<"image/x-icon">>, <<"font/woff">>,
      <<"font/woff2">>, <<"font/ttf">> }

\* C17: shouldCompress is true exactly when compression is enabled, the
\* size is at least the minimum and the type is in the compressible set; it
\* is false for the empty type, images, fonts and the generic binary type.
C17_ShouldCompressIff ==
    returned("shouldCompress") =>
        /\ call.out = (/\ config.EnableCompression
                       /\ call.size >= config.MinSizeForCompression
                       /\ call.contentType \in compressibleTypes)
        /\ call.contentType \in neverCompressed => call.out = FALSE

\* a body of exactly the minimum size is compressed
C17_Witness ==
    /\ returned("shouldCompress")
    /\ config.EnableCompression
    /\ config.MinSizeForCompression = 6
    /\ call.size = 6
    /\ call.contentType = TextHtml
    /\ call.out = TRUE

\* C18: compressData returns an error and no data for "br" and for every
\* encoding that is not "gzip"; for "gzip" and a level in 1..9, or level 0
\* taken as level 6, it returns no error and the gzip stream of the body at
\* that level.
C18_CompressData ==
    (call.fn = "compressData" /\ call.done) =>
        /\ call.encoding # EncGzip =>
               /\ ~call.panics
               /\ call.out.err # "nil"
               /\ call.out.data = <<>>
        /\ (call.encoding = EncGzip /\ config.CompressionLevel \in 0..9) =>
               /\ ~call.panics
               /\ call.out.err = "nil"
               /\ call.out.data =
                      gzipBytes(call.data, IF config.CompressionLevel = 0
                                           THEN 6 ELSE config.CompressionLevel)
               /\ gunzip(call.out.data) = call.data

\* level 0 compresses the body as level 6 does
C18_Witness ==
    /\ call.fn = "compressData" /\ call.done
    /\ call.encoding = EncGzip
    /\ config.CompressionLevel = 0
    /\ call.data = <<1, 1, 1, 1>>
    /\ call.out.err = "nil"
    /\ call.out.data = gzipBytes(call.data, 6)
    /\ call.out.data # gzipBytes(call.data, 0)

(***************************************************************************)
(* Properties of the fan-out, under Spec.                                  *)
(***************************************************************************)
\* the handler is past the call of getFiles
pastFetch == pc \in {"Select", "MaybeCompress", "done"} \/ response # NoResponse

\* the keys a request is to fetch: its resolved key, and index.html in SPA
\* mode
scheduledKeys ==
    IF config.IsSPA THEN <<filePath(config, request.Path), IndexHtml>>
    ELSE <<filePath(config, request.Path)>>

\* once the fetches are started there is one per scheduled key, and past
\* getFiles each of them has run
oneFetchPerKey ==
    /\ pc \in {"Collect", "Select", "MaybeCompress", "done"} => fetch # <<>>
    /\ fetch # <<>> =>
           /\ paths = scheduledKeys
           /\ DOMAIN fetch = DOMAIN paths
    /\ pastFetch => \A i \in DOMAIN fetch : fetch[i].pc = "done"

\* no fetch is started a second time and none is added
noRetry ==
    fetch # <<>> =>
        /\ DOMAIN fetch' = DOMAIN fetch
        /\ paths' = paths
        /\ \A i \in DOMAIN fetch :
               fetch[i].pc # "Attrs" => fetch'[i].pc # "Attrs"

\* C19: a request that is not bypassed fetches each scheduled key once and
\* never again: the resolved key alone with SPA off, the resolved key and
\* index.html with SPA on, whether or not the fetch of the resolved key
\* succeeds.
C19_FetchCount == []oneFetchPerKey /\ [][noRetry]_vars

\* SPA mode, the resolved key was fetched with success, and index.html was
\* fetched all the same
C19_Witness ==
    /\ pc = "done"
    /\ config.IsSPA
    /\ Len(fetch) = 2
    /\ paths[2] = IndexHtml
    /\ fetch[1].pc = "done" /\ fetch[1].result.Err = "nil"
    /\ fetch[2].pc = "done"

\* C20: getFiles returns, and the handler selects a body and writes a
\* response, only after every fetch of the request has finished and its
\* result was received; no response is written while a fetch is running.
C20_BlockingJoin ==
    pastFetch =>
        /\ fetch # <<>>
        /\ \A i \in DOMAIN fetch : fetch[i].pc = "done"
        /\ resultChan = <<>>
        /\ received = Len(paths)

\* two fetches, both received, and the response written
C20_Witness ==
    /\ pc = "done"
    /\ response.status = StatusOK
    /\ Len(fetch) = 2
    /\ received = 2
    /\ \A i \in DOMAIN fetch : fetch[i].pc = "done"

(***************************************************************************)
(* Properties of the fan-out under FairSpec: every backend call returns    *)
(* and every goroutine that can take a step takes it.                      *)
(***************************************************************************)
\* the fetches that have sent their result
sent == { i \in DOMAIN fetch : fetch[i].pc = "done" }

\* a fetch that is at its send can send, every result sent is in the channel
\* or was received, and once getFiles has returned every fetch has ended
noLoss ==
    /\ \A i \in DOMAIN fetch : fetch[i].pc = "Send" => ENABLED Send(i)
    /\ Cardinality(sent) = Len(resultChan) + received
    /\ getFilesReturned =>
           /\ sent = DOMAIN fetch
           /\ resultChan = <<>>

\* a fetch that has sent does not send again, and nothing received is
\* received again
sentOnce ==
    /\ \A i \in DOMAIN fetch : fetch[i].pc = "done" =>
           (i \in DOMAIN fetch' /\ fetch'[i].pc = "done")
    /\ fetch # <<>> => received' \in {received, received + 1}
    /\ Len(resultChan') + received' \in
           { Len(resultChan) + received, Len(resultChan) + received + 1 }

\* C21: when every backend call returns, getFiles returns; each fetch sends
\* one result and never waits to send it, each result sent is received
\* once, and no fetch is left waiting when getFiles has returned.
C21_FanOutLiveness ==
    /\ (pc = "Fetch") ~> (pc = "Select")
    /\ []noLoss
    /\ [][sentOnce]_vars

\* both fetches have sent before the handler received anything: the channel
\* is full and nobody waited
C21_Witness ==
    /\ pc = "Collect"
    /\ Len(fetch) = 2
    /\ sent = {1, 2}
    /\ Len(resultChan) = 2
    /\ received = 0

====
